---- MODULE Spec2Model ----
(***************************************************************************)
(* PriorityThreadPool (src/priority_thread_pool.h), Linux branch.          *)
(*                                                                         *)
(* Threads: the owner thread (Main) constructs the pool, calls its public  *)
(* operations and destroys it; Workers 1..m_threads run the loop of the    *)
(* constructor's lambda.  A task callable is opaque: once invoked it may   *)
(* call the pool's public operations any number of times and then returns. *)
(***************************************************************************)
EXTENDS Integers, Sequences, FiniteSets, TLC

\* ------------------------------------------------------------- bounds
MaxThreads == 2        \* largest maxThreads argument tried
MaxTasks == 3          \* total number of Task Records ever created
MaxSpan == 2           \* largest span handed to add(std::span<TaskPriority>)

\* -------------------------------------------------- Priority (lines 17-37)
THREAD_PRIORITY_LOWEST == 99
THREAD_PRIORITY_BELOW_NORMAL == 75
THREAD_PRIORITY_NORMAL == 50
THREAD_PRIORITY_ABOVE_NORMAL == 25
THREAD_PRIORITY_HIGHEST == 1

Lowest == THREAD_PRIORITY_LOWEST
Low == THREAD_PRIORITY_BELOW_NORMAL
Normal == THREAD_PRIORITY_NORMAL
High == THREAD_PRIORITY_ABOVE_NORMAL
Realtime == THREAD_PRIORITY_HIGHEST

Priority == {Lowest, Low, Normal, High, Realtime}

\* sched_priority of a thread that never called pthread_setschedparam
\* (SCHED_OTHER): 0.
DefaultSchedPriority == 0

\* --------------------------------------------------------------- threads
Main == 0
Workers == 1..MaxThreads
Threads == {Main} \cup Workers
NoThread == -1

NoTask == [id |-> 0, prio |-> 0]
TaskPriority == [id : 1..MaxTasks, prio : Priority]

VARIABLES
  maxThreads,   \* the constructor's argument
  owner,        \* position of the owner thread (construction, destruction)
  joined,       \* number of m_threads elements already joined by ~jthread
  m_threads,    \* m_threads.size()
  m_quit,       \* std::atomic_bool m_quit
  m_tasks,      \* the vector under the std::priority_queue (a binary heap)
  mutexOwner,   \* m_mutex: thread holding it exclusively, or NoThread
  readers,      \* m_mutex: threads holding it shared
  waiters,      \* m_cv: threads blocked in wait
  syncAlive,    \* m_mutex and m_cv are not yet destroyed
  pc,           \* Worker's position in its loop
  cur,          \* Worker's local `task`
  osPrio,       \* Worker's native sched_priority
  adapt,        \* what the step just taken did to adapt a Worker's priority
  callPc,       \* position of a thread inside a public operation
  todo,         \* records add() still has to push
  spanLen,      \* size of the argument of the add() in progress
  ret,          \* what the step just taken returned to its caller, if anything
  nextId,       \* number of Task Records created so far
  invoked,      \* how many times each record's callable was invoked
  preDtor,      \* ids inserted before the destructor began
  pendingAtQuit \* ids in the queue when the destructor set m_quit

vars == <<maxThreads, owner, joined, m_threads, m_quit, m_tasks, mutexOwner,
          readers, waiters, syncAlive, pc, cur, osPrio,
          adapt, callPc, todo, spanLen, ret, nextId, invoked,
          preDtor, pendingAtQuit>>

\* ---------------------------------------------- the queue (lines 68-76)
\* TaskPriorityComparator: first.second COMPARATOR second.second, with
\* COMPARATOR = > on Linux.
TaskPriorityComparatorFlipped(first, second) == first.prio < second.prio

TaskPriorityComparator(first, second) == first.prio > second.prio

Swap(h, i, j) == [h EXCEPT ![i] = h[j], ![j] = h[i]]

\* std::push_heap: the new last element rises while its parent compares
\* less than it.
RECURSIVE SiftUp(_, _)
SiftUp(h, i) ==
  IF i > 1 /\ TaskPriorityComparator(h[i \div 2], h[i])
  THEN SiftUp(Swap(h, i, i \div 2), i \div 2)
  ELSE h

PushHeapDrop(h, x) == IF h = <<>> THEN <<x>> ELSE h

\* std::priority_queue::push / emplace: push_back, then push_heap.
PushHeap(h, x) == SiftUp(Append(h, x), Len(h) + 1)

\* std::priority_queue::top: the front of the vector.
Top(h) == h[1]

\* std::pop_heap's __adjust_heap: the hole at i moves down to a leaf, taking
\* the child that does not compare less than its sibling.
RECURSIVE HoleDown(_, _, _)
HoleDown(h, i, n) ==
  IF 2 * i + 1 <= n
  THEN LET c == IF TaskPriorityComparator(h[2 * i + 1], h[2 * i])
                THEN 2 * i ELSE 2 * i + 1
       IN HoleDown([h EXCEPT ![i] = h[c]], c, n)
  ELSE IF 2 * i = n
  THEN <<[h EXCEPT ![i] = h[2 * i]], 2 * i>>
  ELSE <<h, i>>

PopHeapKeep(h) == h

\* std::priority_queue::pop: pop_heap (the last element is saved, the hole
\* left by the front sinks to a leaf, the saved element rises from there),
\* then pop_back.
PopHeap(h) ==
  IF Len(h) <= 1 THEN <<>>
  ELSE LET n == Len(h) - 1
           v == h[Len(h)]
           d == HoleDown(SubSeq(h, 1, n), 1, n)
       IN SiftUp([d[1] EXCEPT ![d[2]] = v], d[2])

QueueIds == {m_tasks[i].id : i \in 1..Len(m_tasks)}

\* The records one run creates: MaxTasks with a single Worker, one less with
\* more Workers.
RecordBound == IF maxThreads <= 1 THEN MaxTasks ELSE MaxTasks - 1

\* ------------------------------------------------------------------ Init
NoAdapt == [worker |-> NoThread, outcome |-> "none", wrote |-> FALSE]

NoRet == [op |-> "none", thread |-> NoThread, size |-> 0, nonEmpty |-> FALSE]

Init ==
  /\ maxThreads \in 0..MaxThreads
  /\ owner = "start"
  /\ joined = 0
  /\ m_threads = 0
  /\ m_quit = FALSE
  /\ m_tasks = <<>>
  /\ mutexOwner = NoThread
  /\ readers = {}
  /\ waiters = {}
  /\ syncAlive = TRUE
  /\ pc = [w \in Workers |-> "none"]
  /\ cur = [w \in Workers |-> NoTask]
  /\ osPrio = [w \in Workers |-> DefaultSchedPriority]
  /\ adapt = NoAdapt
  /\ callPc = [t \in Threads |-> "idle"]
  /\ todo = [t \in Threads |-> <<>>]
  /\ spanLen = [t \in Threads |-> 0]
  /\ ret = NoRet
  /\ nextId = 0
  /\ invoked = [i \in 1..MaxTasks |-> 0]
  /\ preDtor = {}
  /\ pendingAtQuit = {}

\* ------------------------------------------------- m_mutex and m_cv
\* std::unique_lock / std::lock_guard on a std::shared_mutex: exclusive.
CanLockIgnoringReaders == mutexOwner = NoThread

CanLock == mutexOwner = NoThread /\ readers = {}

\* std::shared_lock: shared, excluded by an exclusive holder only.
CanLockSharedAlways == TRUE

CanLockShared == mutexOwner = NoThread

NotifiedNobody(all) == {{}}

\* The sets of waiters a notification may wake: notify_all wakes them all,
\* notify_one wakes one of them, if there is any.
Notified(all) ==
  IF all THEN {waiters}
  ELSE IF waiters = {} THEN {{}}
  ELSE {{w} : w \in waiters}

\* A woken Worker leaves wait() by reacquiring the lock and evaluating the
\* predicate again, as it does at the top of its loop.
Wake(S) ==
  /\ waiters' = waiters \ S
  /\ pc' = [w \in Workers |-> IF w \in S THEN "lock" ELSE pc[w]]

\* ------------------------------------------------ construction (87-139)
InvalidArgumentNegativeOnly(n) == n < 0

InvalidArgument(n) == n <= 0

ConstructOneMore ==
  /\ owner = "start"
  /\ IF InvalidArgument(maxThreads)
     THEN /\ owner' = "failed"
          /\ UNCHANGED <<m_threads, pc>>
     ELSE /\ owner' = "idle"
          /\ m_threads' = maxThreads
          /\ pc' = [w \in Workers |-> IF w <= maxThreads + 1 THEN "lock" ELSE "none"]
  /\ ret' = NoRet
  /\ adapt' = NoAdapt
  /\ UNCHANGED <<maxThreads, joined, m_quit, m_tasks, mutexOwner, readers,
                 waiters, syncAlive, cur, osPrio, callPc, todo, spanLen, nextId, invoked,
                 preDtor, pendingAtQuit>>

\* explicit PriorityThreadPool(const size_t maxThreads)
Construct ==
  /\ owner = "start"
  /\ IF InvalidArgument(maxThreads)
     THEN /\ owner' = "failed"
          /\ UNCHANGED <<m_threads, pc>>
     ELSE /\ owner' = "idle"
          /\ m_threads' = maxThreads
          /\ pc' = [w \in Workers |-> IF w <= maxThreads THEN "lock" ELSE "none"]
  /\ ret' = NoRet
  /\ adapt' = NoAdapt
  /\ UNCHANGED <<maxThreads, joined, m_quit, m_tasks, mutexOwner, readers,
                 waiters, syncAlive, cur, osPrio, callPc, todo, spanLen, nextId, invoked,
                 preDtor, pendingAtQuit>>

\* ------------------------------------------------ the Worker loop (97-136)
\* The process has not been terminated.
Alive == owner # "crashed"

\* std::unique_lock lock(m_mutex), and the reacquisition at the end of wait().
WLock(w) ==
  /\ Alive /\ pc[w] = "lock" /\ CanLock
  /\ mutexOwner' = w
  /\ pc' = [pc EXCEPT ![w] = "pred"]
  /\ ret' = NoRet
  /\ adapt' = NoAdapt
  /\ UNCHANGED <<maxThreads, owner, joined, m_threads, m_quit, m_tasks, readers,
                 waiters, syncAlive, cur, osPrio, callPc, todo, spanLen, nextId, invoked,
                 preDtor, pendingAtQuit>>

WaitPredicateTasksOnly == m_tasks # <<>>

\* [this] { return m_quit || !m_tasks.empty(); }
WaitPredicate == m_quit \/ m_tasks # <<>>

\* m_cv.wait(lock, pred) evaluates the predicate with the lock held.
WPred(w) ==
  /\ Alive /\ pc[w] = "pred"
  /\ pc' = [pc EXCEPT ![w] = IF WaitPredicate THEN "check" ELSE "block"]
  /\ ret' = NoRet
  /\ adapt' = NoAdapt
  /\ UNCHANGED <<maxThreads, owner, joined, m_threads, m_quit, m_tasks,
                 mutexOwner, readers, waiters, syncAlive,
                 cur, osPrio, callPc, todo, spanLen, nextId,
                 invoked, preDtor, pendingAtQuit>>

\* The predicate was false: wait(lock) enters the wait set and releases the
\* lock in one step with respect to notify.
WBlock(w) ==
  /\ Alive /\ pc[w] = "block"
  /\ waiters' = waiters \cup {w}
  /\ mutexOwner' = NoThread
  /\ pc' = [pc EXCEPT ![w] = "waiting"]
  /\ ret' = NoRet
  /\ adapt' = NoAdapt
  /\ UNCHANGED <<maxThreads, owner, joined, m_threads, m_quit, m_tasks, readers,
                 syncAlive, cur, osPrio, callPc, todo, spanLen, nextId, invoked, preDtor,
                 pendingAtQuit>>

\* A condition variable may wake a waiter that nobody notified.
WSpurious(w) ==
  /\ Alive /\ pc[w] = "waiting" /\ w \in waiters
  /\ Wake({w})
  /\ ret' = NoRet
  /\ adapt' = NoAdapt
  /\ UNCHANGED <<maxThreads, owner, joined, m_threads, m_quit, m_tasks,
                 mutexOwner, readers, syncAlive, cur, osPrio,
                 callPc, todo, spanLen, nextId, invoked, preDtor, pendingAtQuit>>

LoopExitOnQuit == m_quit

\* if (m_tasks.empty()) { if (m_quit) break; ... }
LoopExit == m_tasks = <<>> /\ m_quit

OwnerAfterPopKept(w) == w

\* lock.unlock() after the pop
OwnerAfterPop(w) == NoThread

\* Lines 102-110, all with the lock held: leave the loop, go round again, or
\* take the top record, remove it and unlock.
WCheck(w) ==
  /\ Alive /\ pc[w] = "check"
  /\ IF LoopExit
     THEN /\ pc' = [pc EXCEPT ![w] = "done"]
          /\ mutexOwner' = NoThread
          /\ UNCHANGED <<m_tasks, cur>>
     ELSE IF m_tasks = <<>>
     THEN /\ pc' = [pc EXCEPT ![w] = "lock"]
          /\ mutexOwner' = NoThread
          /\ UNCHANGED <<m_tasks, cur>>
     ELSE /\ cur' = [cur EXCEPT ![w] = Top(m_tasks)]
          /\ m_tasks' = PopHeap(m_tasks)
          /\ mutexOwner' = OwnerAfterPop(w)
          /\ pc' = [pc EXCEPT ![w] = "adapt"]
  /\ ret' = NoRet
  /\ adapt' = NoAdapt
  /\ UNCHANGED <<maxThreads, owner, joined, m_threads, m_quit, readers, waiters,
                 syncAlive, osPrio, callPc,
                 todo, spanLen, nextId, invoked, preDtor, pendingAtQuit>>

AdaptOutcomeAlwaysSet(w, getOk, setOk) ==
  IF ~getOk THEN "getfail"
  ELSE IF setOk THEN "setok"
  ELSE "setfail"

\* Lines 112-125: pthread_getschedparam, and pthread_setschedparam when the
\* native priority differs from the task's value.  getOk and setOk are the
\* two system calls' results.
AdaptOutcome(w, getOk, setOk) ==
  IF ~getOk THEN "getfail"
  ELSE IF osPrio[w] = cur[w].prio THEN "same"
  ELSE IF setOk THEN "setok"
  ELSE "setfail"

\* policy = SCHED_FIFO: the policy the Worker sets orders threads by
\* sched_priority, 1 the least urgent and 99 the most urgent.
SchedFifoAtLeastAsUrgent(a, b) == a >= b

\* std::osyncstream(std::cerr) << errorMessage is reached when the set fails.
WritesErrorMessage(outcome) == outcome = "setfail"

\* Lines 112-135: adapt, then task.first().
WAdapt(w) ==
  /\ Alive /\ pc[w] = "adapt"
  /\ \E getOk \in BOOLEAN, setOk \in BOOLEAN :
       LET o == AdaptOutcome(w, getOk, setOk)
       IN /\ adapt' = [worker |-> w, outcome |-> o, wrote |-> WritesErrorMessage(o)]
          /\ osPrio' = [osPrio EXCEPT ![w] =
                          IF o = "setok" THEN cur[w].prio ELSE @]
  /\ invoked' = [invoked EXCEPT ![cur[w].id] = @ + 1]
  /\ pc' = [pc EXCEPT ![w] = "exec"]
  /\ ret' = NoRet
  /\ UNCHANGED <<maxThreads, owner, joined, m_threads, m_quit, m_tasks,
                 mutexOwner, readers, waiters, syncAlive, cur, callPc, todo,
                 spanLen, nextId, preDtor, pendingAtQuit>>

\* The callable returns; the loop's iteration ends (`task` and `lock` are
\* destroyed) and the next one begins.
WReturn(w) ==
  /\ Alive /\ pc[w] = "exec" /\ callPc[w] = "idle"
  /\ pc' = [pc EXCEPT ![w] = "lock"]
  /\ cur' = [cur EXCEPT ![w] = NoTask]
  /\ ret' = NoRet
  /\ adapt' = NoAdapt
  /\ UNCHANGED <<maxThreads, owner, joined, m_threads, m_quit, m_tasks,
                 mutexOwner, readers, waiters, syncAlive,
                 osPrio, callPc, todo, spanLen, nextId, invoked,
                 preDtor, pendingAtQuit>>

\* ------------------------------------------- public operations (148-179)
\* A thread may enter a public operation: the owner between construction and
\* destruction, a Worker from inside the callable it is executing.
CanCall(t) ==
  /\ Alive /\ callPc[t] = "idle"
  /\ IF t = Main THEN owner = "idle" ELSE pc[t] = "exec"

NewRecordsFirstOnly(ps) ==
  [k \in 1..(IF Len(ps) = 0 THEN 0 ELSE 1) |-> [id |-> nextId + k, prio |-> ps[k]]]

NewRecords(ps) == [k \in 1..Len(ps) |-> [id |-> nextId + k, prio |-> ps[k]]]

\* std::lock_guard guard(m_mutex) of either add: the caller goes on once it
\* holds the lock exclusively.
AddLock(t, ps) ==
  /\ CanCall(t) /\ CanLock
  /\ nextId + Len(ps) <= RecordBound
  /\ mutexOwner' = t
  /\ todo' = [todo EXCEPT ![t] = NewRecords(ps)]
  /\ spanLen' = [spanLen EXCEPT ![t] = Len(ps)]
  /\ nextId' = nextId + Len(ps)
  /\ callPc' = [callPc EXCEPT ![t] = "a_push"]
  /\ ret' = NoRet
  /\ adapt' = NoAdapt
  /\ UNCHANGED <<maxThreads, owner, joined, m_threads, m_quit, m_tasks, readers,
                 waiters, syncAlive, pc, cur, osPrio, invoked,
                 preDtor, pendingAtQuit>>

\* void add(const Task task, const Priority priority = Priority::Normal)
add(t) == \E priority \in Priority : AddLock(t, <<priority>>)

\* void add(std::span<TaskPriority> tasks)
addSpan(t) == \E n \in 0..MaxSpan : \E ps \in [1..n -> Priority] : AddLock(t, ps)

\* m_tasks.emplace / m_tasks.push of the next record; the guard's scope ends
\* after the last one.
AddPush(t) ==
  /\ Alive /\ callPc[t] = "a_push"
  /\ IF todo[t] = <<>>
     THEN UNCHANGED <<m_tasks, todo>>
     ELSE /\ m_tasks' = PushHeap(m_tasks, Head(todo[t]))
          /\ todo' = [todo EXCEPT ![t] = Tail(@)]
  /\ IF Len(todo[t]) <= 1
     THEN /\ mutexOwner' = NoThread
          /\ callPc' = [callPc EXCEPT ![t] = "a_notify"]
     ELSE UNCHANGED <<mutexOwner, callPc>>
  /\ ret' = NoRet
  /\ adapt' = NoAdapt
  /\ UNCHANGED <<maxThreads, owner, joined, m_threads, m_quit, readers, waiters,
                 syncAlive, pc, cur, osPrio, spanLen, nextId,
                 invoked, preDtor, pendingAtQuit>>

\* m_cv.notify_one() of either add
AddNotify(t) ==
  /\ Alive /\ callPc[t] = "a_notify"
  /\ \E S \in Notified(FALSE) : Wake(S)
  /\ callPc' = [callPc EXCEPT ![t] = "idle"]
  /\ spanLen' = [spanLen EXCEPT ![t] = 0]
  /\ ret' = NoRet
  /\ adapt' = NoAdapt
  /\ UNCHANGED <<maxThreads, owner, joined, m_threads, m_quit, m_tasks,
                 mutexOwner, readers, syncAlive, cur, osPrio, todo, nextId, invoked, preDtor, pendingAtQuit>>

\* std::shared_lock guard(m_mutex) of either introspection operation
ReadLock(t, op) ==
  /\ CanCall(t) /\ CanLockShared
  /\ readers' = readers \cup {t}
  /\ callPc' = [callPc EXCEPT ![t] = op]
  /\ ret' = NoRet
  /\ adapt' = NoAdapt
  /\ UNCHANGED <<maxThreads, owner, joined, m_threads, m_quit, m_tasks,
                 mutexOwner, waiters, syncAlive, pc, cur, osPrio, todo, spanLen, nextId, invoked, preDtor, pendingAtQuit>>

\* size_t remainingTasks() const
remainingTasks(t) == ReadLock(t, "remainingTasks")

\* bool hasRemainingTasks() const
hasRemainingTasks(t) == ReadLock(t, "hasRemainingTasks")

\* return m_tasks.size() / return !m_tasks.empty(), and the guard's release
ReadReturn(t) ==
  /\ Alive /\ callPc[t] \in {"remainingTasks", "hasRemainingTasks"}
  /\ ret' = [op |-> callPc[t], thread |-> t,
             size |-> IF callPc[t] = "remainingTasks" THEN Len(m_tasks) ELSE 0,
             nonEmpty |-> callPc[t] = "hasRemainingTasks" /\ m_tasks # <<>>]
  /\ readers' = readers \ {t}
  /\ callPc' = [callPc EXCEPT ![t] = "idle"]
  /\ adapt' = NoAdapt
  /\ UNCHANGED <<maxThreads, owner, joined, m_threads, m_quit, m_tasks,
                 mutexOwner, waiters, syncAlive, pc, cur, osPrio, todo, spanLen, nextId, invoked, preDtor, pendingAtQuit>>

\* ------------------------------------------------ destruction (142-145, 182-186)
TodoIds == UNION {{todo[t][k].id : k \in 1..Len(todo[t])} : t \in Threads}

\* m_quit = true, with no lock held
DtorQuit ==
  /\ Alive /\ owner = "idle" /\ callPc[Main] = "idle"
  /\ m_quit' = TRUE
  /\ owner' = "d_notify"
  /\ preDtor' = (1..nextId) \ TodoIds
  /\ pendingAtQuit' = QueueIds
  /\ ret' = NoRet
  /\ adapt' = NoAdapt
  /\ UNCHANGED <<maxThreads, joined, m_threads, m_tasks, mutexOwner, readers,
                 waiters, syncAlive, pc, cur, osPrio, callPc, todo, spanLen, nextId, invoked>>

\* m_cv.notify_all()
DtorNotify ==
  /\ Alive /\ owner = "d_notify"
  /\ \E S \in Notified(TRUE) : Wake(S)
  /\ owner' = "d_sync"
  /\ ret' = NoRet
  /\ adapt' = NoAdapt
  /\ UNCHANGED <<maxThreads, joined, m_threads, m_quit, m_tasks, mutexOwner,
                 readers, syncAlive, cur, osPrio, callPc, todo, spanLen, nextId, invoked,
                 preDtor, pendingAtQuit>>

\* The members are destroyed in reverse order of declaration: m_mutex and
\* m_cv first,
DtorSync ==
  /\ Alive /\ owner = "d_sync"
  /\ syncAlive' = FALSE
  /\ owner' = "d_join"
  /\ ret' = NoRet
  /\ adapt' = NoAdapt
  /\ UNCHANGED <<maxThreads, joined, m_threads, m_quit, m_tasks, mutexOwner,
                 readers, waiters, pc, cur, osPrio, callPc, todo,
                 spanLen, nextId, invoked, preDtor, pendingAtQuit>>

DtorJoinNoWait ==
  /\ Alive /\ owner = "d_join" /\ joined < m_threads
  /\ joined' = joined + 1
  /\ ret' = NoRet
  /\ adapt' = NoAdapt
  /\ UNCHANGED <<maxThreads, owner, m_threads, m_quit, m_tasks, mutexOwner,
                 readers, waiters, syncAlive, pc, cur, osPrio,
                 callPc, todo, spanLen, nextId, invoked, preDtor, pendingAtQuit>>

\* then m_threads: each std::jthread's destructor joins its thread,
DtorJoin ==
  /\ Alive /\ owner = "d_join" /\ joined < m_threads
  /\ pc[joined + 1] = "done"
  /\ joined' = joined + 1
  /\ ret' = NoRet
  /\ adapt' = NoAdapt
  /\ UNCHANGED <<maxThreads, owner, m_threads, m_quit, m_tasks, mutexOwner,
                 readers, waiters, syncAlive, pc, cur, osPrio,
                 callPc, todo, spanLen, nextId, invoked, preDtor, pendingAtQuit>>

\* then m_tasks, with whatever records it still holds, and m_quit.
DtorTasks ==
  /\ Alive /\ owner = "d_join" /\ joined = m_threads
  /\ m_tasks' = <<>>
  /\ owner' = "destroyed"
  /\ ret' = NoRet
  /\ adapt' = NoAdapt
  /\ UNCHANGED <<maxThreads, joined, m_threads, m_quit, mutexOwner, readers,
                 waiters, syncAlive, pc, cur, osPrio, callPc, todo, spanLen, nextId, invoked,
                 preDtor, pendingAtQuit>>

\* A thread is about to operate on (or is blocked on) m_mutex or m_cv after
\* the member was destroyed (a Worker executing a callable may enter a public
\* operation): undefined behaviour.
UsesDestroyed(t) ==
  /\ ~syncAlive
  /\ \/ callPc[t] # "idle"
     \/ t \in Workers /\ pc[t] \in {"lock", "block", "waiting", "check", "exec"}

\* The undefined behaviour either goes unnoticed (the operation acts as on a
\* live member: the actions above) or ends the process, with all its threads.
Crash ==
  /\ Alive
  /\ \E t \in Threads : UsesDestroyed(t)
  /\ owner' = "crashed"
  /\ m_tasks' = <<>>
  /\ mutexOwner' = NoThread
  /\ readers' = {}
  /\ waiters' = {}
  /\ pc' = [w \in Workers |-> "none"]
  /\ cur' = [w \in Workers |-> NoTask]
  /\ osPrio' = [w \in Workers |-> DefaultSchedPriority]
  /\ callPc' = [t \in Threads |-> "idle"]
  /\ todo' = [t \in Threads |-> <<>>]
  /\ spanLen' = [t \in Threads |-> 0]
  /\ ret' = NoRet
  /\ adapt' = NoAdapt
  /\ UNCHANGED <<maxThreads, joined, m_threads, m_quit, syncAlive, nextId,
                 invoked, preDtor, pendingAtQuit>>

\* ------------------------------------------------------------------ Next
WorkerStep(w) ==
  \/ WLock(w)
  \/ WPred(w)
  \/ WBlock(w)
  \/ WCheck(w)
  \/ WAdapt(w)
  \/ WReturn(w)

CallStep(t) ==
  \/ AddPush(t)
  \/ AddNotify(t)
  \/ ReadReturn(t)

CallBegin(t) ==
  \/ add(t)
  \/ addSpan(t)
  \/ remainingTasks(t)
  \/ hasRemainingTasks(t)

Destroy ==
  \/ DtorQuit
  \/ DtorNotify
  \/ DtorSync
  \/ DtorJoin
  \/ DtorTasks

Next ==
  \/ Construct
  \/ \E w \in Workers : WorkerStep(w)
  \/ \E w \in Workers : WSpurious(w)
  \/ \E t \in Threads : CallBegin(t)
  \/ \E t \in Threads : CallStep(t)
  \/ Destroy
  \/ Crash

Spec == Init /\ [][Next]_vars

\* --------------------------------------------------------- fair scheduling
\* The pool while its owner keeps it: no destruction.  Every thread that can
\* take a step is eventually scheduled, a thread that tries to lock m_mutex
\* eventually gets it if it is free again and again, and every callable
\* returns.
NextLive ==
  \/ Construct
  \/ \E w \in Workers : WorkerStep(w)
  \/ \E w \in Workers : WSpurious(w)
  \/ \E t \in Threads : CallBegin(t)
  \/ \E t \in Threads : CallStep(t)

Fairness ==
  /\ WF_vars(Construct)
  /\ \A w \in Workers :
       /\ SF_vars(WLock(w))
       /\ WF_vars(WPred(w) \/ WBlock(w) \/ WCheck(w) \/ WAdapt(w))
       /\ SF_vars(WReturn(w))
  /\ \A t \in Threads : WF_vars(CallStep(t))

FairSpec == Init /\ [][NextLive]_vars /\ Fairness

\* The same pool when a callable may run for ever: nothing obliges a callable
\* to return, nor the condition variable to wake a waiter nobody notified, nor
\* any thread to call the pool.
FairnessBlocking ==
  /\ WF_vars(Construct)
  /\ \A w \in Workers :
       /\ SF_vars(WLock(w))
       /\ WF_vars(WPred(w) \/ WBlock(w) \/ WCheck(w) \/ WAdapt(w))
  /\ \A t \in Threads : WF_vars(CallStep(t))

BlockingSpec == Init /\ [][NextLive]_vars /\ FairnessBlocking

\* ------------------------------------------------------------------ claims
\* The abstract order of the levels: Realtime > High > Normal > Low > Lowest.
Rank(p) ==
  CASE p = Realtime -> 5
    [] p = High -> 4
    [] p = Normal -> 3
    [] p = Low -> 2
    [] p = Lowest -> 1
    [] OTHER -> 0

Pending == {m_tasks[k] : k \in 1..Len(m_tasks)}

\* Worker w holds record i: it dequeued it and its callable has not returned.
Holds(w, i) == cur[w].id = i

\* The step in which Worker w dequeues a record.
PopStep(w) == pc[w] = "check" /\ pc'[w] = "adapt"

\* C1: whenever a Worker pops a record, no record of strictly higher Priority
\* is pending at that moment, and the pop removes that record and no other;
\* so a single Worker facing A(Low), B(High), C(Normal) takes B, then C, then A.
C1_PriorityOrder ==
  [][\A w \in Workers :
       PopStep(w) =>
         /\ cur'[w] \in Pending
         /\ \A r \in Pending : Rank(r.prio) <= Rank(cur'[w].prio)
         /\ {m_tasks'[k] : k \in 1..Len(m_tasks')} = Pending \ {cur'[w]}
         /\ Len(m_tasks') = Len(m_tasks) - 1]_vars

\* A single Worker has just taken B(High) first although A(Low) was submitted
\* before it, A(Low) and C(Normal) still pending, nothing invoked yet.
C1_Witness ==
  /\ maxThreads = 1 /\ pc[1] = "adapt"
  /\ cur[1] = [id |-> 2, prio |-> High]
  /\ Pending = {[id |-> 1, prio |-> Low], [id |-> 3, prio |-> Normal]}
  /\ \A i \in 1..MaxTasks : invoked[i] = 0

\* C2: each record is popped by at most one Worker and its callable is invoked
\* at most once: a record is never at once in the queue and with a Worker (or
\* already invoked), never with two Workers, never twice in the queue.
C2_NoDoubleDequeue ==
  \A i \in 1..MaxTasks :
    /\ invoked[i] <= 1
    /\ Cardinality({w \in Workers : Holds(w, i)}) <= 1
    /\ Cardinality({k \in 1..Len(m_tasks) : m_tasks[k].id = i}) <= 1
    /\ i \in QueueIds => invoked[i] = 0 /\ \A w \in Workers : ~Holds(w, i)
    /\ \A w \in Workers : Holds(w, i) /\ pc[w] = "exec" => invoked[i] = 1

\* Two Workers execute two different records at the same time.
C2_Witness ==
  /\ pc[1] = "exec" /\ pc[2] = "exec"
  /\ cur[1].id # cur[2].id
  /\ invoked[cur[1].id] = 1 /\ invoked[cur[2].id] = 1

\* Record i was created, invoked, and its callable has returned.
Completed(i) == invoked[i] >= 1 /\ \A w \in Workers : cur[w].id # i

\* Every record created so far was invoked exactly once and has returned, and
\* no submission is in progress.
Quiescent ==
  /\ \A i \in 1..nextId : Completed(i) /\ invoked[i] = 1
  /\ \A t \in Threads : todo[t] = <<>>

\* C3: under fair scheduling, in a pool that is not being destroyed, the
\* records submitted (single or batch submit, from any thread) are all
\* eventually invoked, each exactly once, and their callables return: the pool
\* reaches quiescence and stays there once no more records are submitted.
C3_Completion == <>[]Quiescent


\* A pool with two Workers is quiescent after two records were submitted and
\* both Workers are back in wait().
C3_Witness ==
  /\ maxThreads = 2 /\ nextId = 2 /\ Quiescent
  /\ waiters = {1, 2}

\* C4: once the destructor has set m_quit and issued notify_all, no Worker is
\* (or ever gets) blocked in wait(): none evaluated the predicate as false
\* before the flag was set and blocks after the wake-all.
C4_NoLostShutdownWakeup ==
  owner \in {"d_sync", "d_join", "destroyed"} => waiters = {}

\* C5, as stated: a record that is in the queue when the destructor sets
\* m_quit is never dequeued and never invoked.
C5_ShutdownDrop ==
  \A i \in pendingAtQuit :
    invoked[i] = 0 /\ \A w \in Workers : ~Holds(w, i)

\* C5, amended: the Workers keep popping after shutdown was requested; no
\* Worker reaches Terminal while a record that was pending when m_quit was set
\* is still in the queue: by then each of them was dequeued by some Worker.
C5_PendingAtShutdownDrained ==
  (\E w \in Workers : pc[w] = "done") =>
    \A i \in pendingAtQuit :
      /\ i \notin QueueIds
      /\ invoked[i] >= 1 \/ \E w \in Workers : Holds(w, i)

\* A Worker is Terminal and the records that were pending at shutdown were all
\* invoked.
C5_Witness ==
  /\ \E w \in Workers : pc[w] = "done"
  /\ pendingAtQuit # {}
  /\ \A i \in pendingAtQuit : invoked[i] = 1

\* C6: when the destructor has returned, every record submitted before it
\* began was invoked exactly once and its callable has returned.
C6_DrainOnExit ==
  owner = "destroyed" =>
    \A i \in preDtor : invoked[i] = 1 /\ Completed(i)

\* The pool was destroyed with records still in the queue when it began.
C6_Witness ==
  /\ owner = "destroyed"
  /\ Cardinality(pendingAtQuit) >= 2
  /\ preDtor = 1..nextId

\* C7: a Worker that adapts its priority or runs a callable does not hold
\* m_mutex (unless the callable itself is inside a public operation), so a
\* callable's call of a public operation never waits for a lock its own thread
\* holds; and a thread inside add, once it holds the lock, can always take its
\* next step, to the end of the call.
C7_NoReentrantDeadlock ==
  /\ \A w \in Workers :
       pc[w] \in {"adapt", "exec"} /\ callPc[w] = "idle" =>
         mutexOwner # w /\ w \notin readers
  /\ \A t \in Threads :
       /\ callPc[t] = "a_push" => ENABLED AddPush(t)
       /\ callPc[t] = "a_notify" => ENABLED AddNotify(t)
       /\ callPc[t] \in {"remainingTasks", "hasRemainingTasks"} =>
            ENABLED ReadReturn(t)

\* A callable is inside add on its own pool, holding the lock, while the
\* owner waits on.
C7_Witness ==
  \E w \in Workers :
    pc[w] = "exec" /\ callPc[w] = "a_push" /\ mutexOwner = w /\ todo[w] # <<>>

\* Thread t has inserted some but not all of the records of its span.
PartialBatch(t) ==
  callPc[t] = "a_push" /\ 0 < Len(todo[t]) /\ Len(todo[t]) < spanLen[t]

\* C8: between the first and the last insertion of a batch, no introspection
\* call returns a value, no Worker dequeues and no other thread inserts.
C8_BatchAtomic ==
  [][\A t \in Threads :
       PartialBatch(t) =>
         /\ ret' = NoRet
         /\ \A w \in Workers : ~PopStep(w)
         /\ \A u \in Threads \ {t} : todo'[u] = todo[u]
         /\ mutexOwner = t /\ readers = {}]_vars

\* The owner is in the middle of a batch while a callable is running that may
\* call remainingTasks.
C8_Witness ==
  /\ PartialBatch(Main)
  /\ \E w \in Workers : pc[w] = "exec" /\ callPc[w] = "idle"

\* C9: with maxThreads = 0 the construction fails and no Worker exists; with
\* maxThreads >= 1 there are exactly maxThreads Workers, and until a record is
\* submitted or shutdown is requested each of them is in its wait (locking,
\* evaluating the predicate, blocking or blocked), the queue is empty and
\* m_quit is unset.
C9_Construction ==
  /\ owner \in {"start", "failed"} =>
       m_threads = 0 /\ \A w \in Workers : pc[w] = "none"
  /\ owner = "failed" => maxThreads = 0
  /\ owner \notin {"start", "failed"} =>
       maxThreads >= 1 /\ m_threads = maxThreads
  /\ owner = "idle" /\ nextId = 0 =>
       /\ m_tasks = <<>> /\ ~m_quit
       /\ \A w \in Workers :
            IF w <= maxThreads
            THEN pc[w] \in {"lock", "pred", "block", "waiting"} /\ cur[w] = NoTask
            ELSE pc[w] = "none"

\* The construction with maxThreads = 0 has failed.
C9_Witness == owner = "failed" /\ maxThreads = 0 /\ m_threads = 0

\* C10: whenever the read or the set of the native priority fails, the
\* diagnostic is written and the callable is still invoked, once.
C10_AdaptationFailureReported ==
  adapt.outcome \in {"getfail", "setfail"} =>
    /\ adapt.wrote
    /\ pc[adapt.worker] = "exec"
    /\ invoked[cur[adapt.worker].id] = 1

\* The queue treats p as more urgent than q: a record of level q compares
\* less than a record of level p, so p is nearer the top.
QueueMoreUrgent(p, q) ==
  TaskPriorityComparator([id |-> 0, prio |-> q], [id |-> 0, prio |-> p])

\* The Worker's native priority is the value of the task it is executing: the
\* adaptation took effect (or was not needed).
Applied(w) == pc[w] = "exec" /\ osPrio[w] = cur[w].prio

\* C11: when two Workers execute tasks at the native priorities the pool gave
\* them and the queue treats the first task's level as more urgent than the
\* second's, the first Worker's native priority is at least as urgent as the
\* second's under SCHED_FIFO.
C11_NativeOrderConsistent ==
  \A w, v \in Workers :
    Applied(w) /\ Applied(v) /\ QueueMoreUrgent(cur[w].prio, cur[v].prio) =>
      SchedFifoAtLeastAsUrgent(osPrio[w], osPrio[v])

ReadOps == {"remainingTasks", "hasRemainingTasks"}

\* The records submitted (inserted by an add) and not yet dequeued.
PendingCount ==
  Cardinality({i \in 1..nextId :
                 /\ i \notin TodoIds
                 /\ invoked[i] = 0
                 /\ \A w \in Workers : ~Holds(w, i)})

\* What the introspection operations must leave alone.
ReadFrame == <<m_tasks, m_quit, pc, cur, osPrio, waiters, mutexOwner, invoked>>

\* C12: remainingTasks returns the number of records pending (submitted, not
\* yet dequeued) while it holds the lock shared, with no writer inside;
\* hasRemainingTasks returns whether that number is positive; and neither
\* call, from its lock to its return, changes the queue, m_quit or a Worker.
C12_Introspection ==
  [][\A t \in Threads :
       /\ (callPc[t] = "idle" /\ callPc'[t] \in ReadOps) =>
            /\ mutexOwner = NoThread
            /\ t \in readers'
            /\ UNCHANGED ReadFrame
       /\ (callPc[t] \in ReadOps /\ callPc'[t] = "idle" /\ owner' # "crashed") =>
            /\ mutexOwner = NoThread /\ t \in readers
            /\ ret'.thread = t /\ ret'.op = callPc[t]
            /\ callPc[t] = "remainingTasks" =>
                 ret'.size = PendingCount /\ ret'.size = Len(m_tasks)
            /\ callPc[t] = "hasRemainingTasks" =>
                 ret'.nonEmpty = (PendingCount > 0)
            /\ UNCHANGED ReadFrame]_vars

\* remainingTasks has just returned 2 while a third record is being executed.
C12_Witness ==
  /\ ret.op = "remainingTasks" /\ ret.size = 2
  /\ \E w \in Workers : pc[w] = "exec" /\ cur[w] # NoTask

\* Thread t has inserted every record of its argument and is about to notify.
Inserted(t) == callPc[t] = "a_notify" /\ spanLen[t] >= 1

Stranded(w) == m_tasks # <<>> /\ pc[w] = "waiting" /\ w \in waiters

\* C14: whatever the callables in execution do (they may never return), a
\* record pending while a Worker sleeps in wait() does not stay so: the
\* Worker is eventually woken, or the queue is emptied by another Worker.
C14_NoStarvation ==
  \A w \in Workers : Stranded(w) ~> ~Stranded(w)

\* C15: in every step of the running pool, the queue changes only by a step
\* of a thread that holds m_mutex exclusively (a Worker's pop, an add's
\* insertion), m_quit is written only by a thread that holds m_mutex
\* exclusively, and an introspection call reads the queue holding m_mutex
\* shared.
C15_LockDiscipline ==
  [][owner' # "crashed" =>
       /\ m_tasks' # m_tasks =>
            \/ \E w \in Workers : PopStep(w) /\ mutexOwner = w
            \/ \E t \in Threads :
                 callPc[t] = "a_push" /\ todo'[t] # todo[t] /\ mutexOwner = t
       /\ m_quit' # m_quit => mutexOwner = Main
       /\ ret' # NoRet => ret'.thread \in readers /\ mutexOwner = NoThread]_vars

\* The Workers that have not left their loop.
LiveWorkers == {w \in Workers : pc[w] \notin {"none", "done"}}

\* C16: a Worker leaves its loop only in a step taken with the lock held, the
\* queue empty and m_quit set; a Worker that finds the queue empty and m_quit
\* unset goes (back) to wait() without touching the queue or taking a record;
\* and until the destructor begins every one of the maxThreads Workers is in
\* its loop.
C16_WorkerExit ==
  /\ [](owner = "idle" => ~m_quit /\ Cardinality(LiveWorkers) = maxThreads)
  /\ [][\A w \in Workers :
          /\ (pc[w] # "done" /\ pc'[w] = "done") =>
               /\ m_tasks = <<>> /\ m_quit /\ mutexOwner = w
               /\ m_tasks' = <<>> /\ cur'[w] = NoTask
          /\ (pc[w] \in {"pred", "check"} /\ pc'[w] # pc[w] /\ owner' # "crashed"
                /\ m_tasks = <<>> /\ ~m_quit) =>
               /\ pc'[w] \in {"block", "lock"}
               /\ m_tasks' = m_tasks /\ cur'[w] = cur[w]]_vars

\* One Worker has left its loop on an empty queue after shutdown was requested
\* while the other is still executing a callable.
C16_Witness ==
  /\ pc[1] = "done" /\ pc[2] = "exec"
  /\ m_quit /\ m_tasks = <<>>

\* Worker w is Adapting or Executing.
InFlight(w) == pc[w] \in {"adapt", "exec"}

\* C17: as long as the process runs, a Worker that is Adapting or Executing
\* moves on only by its own steps (adapt, invoke, the callable's return): no
\* step of the destructor takes its record away or ends it; the destructor
\* does not pass the join of a Worker that is not Terminal, and when it has
\* returned every Worker is Terminal and every callable invoked has returned.
C17_NoInterrupt ==
  /\ [](/\ Alive => \A w \in Workers : w <= joined => pc[w] = "done"
        /\ owner = "destroyed" =>
             /\ \A w \in 1..m_threads : pc[w] = "done" /\ cur[w] = NoTask
             /\ \A i \in 1..nextId : invoked[i] >= 1 => Completed(i))
  /\ [][\A w \in Workers :
          InFlight(w) /\ owner' # "crashed" =>
            \/ pc'[w] = pc[w] /\ cur'[w] = cur[w]
            \/ pc[w] = "adapt" /\ pc'[w] = "exec" /\ cur'[w] = cur[w]
            \/ pc[w] = "exec" /\ pc'[w] = "lock" /\ callPc[w] = "idle"]_vars

\* The destructor has joined Worker 1 and waits for Worker 2, which is still
\* executing a callable.
C17_Witness ==
  /\ owner = "d_join" /\ joined = 1
  /\ pc[2] = "exec" /\ invoked[cur[2].id] = 1

\* The dispatch step of Worker w in which it calls pthread_setschedparam.
SetAttempt(w) == WAdapt(w) /\ adapt'.outcome \in {"setok", "setfail"}

\* C18: in the step between the pop and the callable's invocation the Worker
\* does not hold the lock; it calls pthread_setschedparam only if its native
\* priority differs from the task's value, once; a failed (or skipped) set
\* leaves the native priority as it was, a successful one makes it the
\* task's value when the callable is invoked, and equal values leave it
\* unchanged; and whatever happened in earlier dispatches, a Worker whose
\* native priority differs from its task's value can make the attempt.
C18_AdaptationStep ==
  /\ [][\A w \in Workers :
          (pc[w] = "adapt" /\ pc'[w] = "exec") =>
            /\ mutexOwner # w /\ adapt'.worker = w
            /\ adapt'.outcome \in {"getfail", "same", "setok", "setfail"}
            /\ adapt'.outcome \in {"setok", "setfail"} => osPrio[w] # cur[w].prio
            /\ osPrio[w] = cur[w].prio =>
                 adapt'.outcome \in {"same", "getfail"} /\ osPrio'[w] = osPrio[w]
            /\ adapt'.outcome = "same" => osPrio[w] = cur[w].prio
            /\ adapt'.outcome = "setok" => osPrio'[w] = cur[w].prio
            /\ adapt'.outcome \in {"setfail", "getfail"} => osPrio'[w] = osPrio[w]
            /\ invoked'[cur[w].id] = invoked[cur[w].id] + 1 /\ cur'[w] = cur[w]
            /\ \A v \in Workers \ {w} : osPrio'[v] = osPrio[v]]_vars
  /\ [](\A w \in Workers :
          Alive /\ pc[w] = "adapt" /\ osPrio[w] # cur[w].prio =>
            ENABLED SetAttempt(w))

\* The single Worker's second dispatch calls pthread_setschedparam, which
\* fails, after a first dispatch that left its native priority unset.
C18_Witness ==
  /\ maxThreads = 1 /\ adapt.outcome = "setfail"
  /\ osPrio[1] = DefaultSchedPriority
  /\ \E i \in 1..nextId : i # cur[1].id /\ Completed(i)

\* C19: m_mutex and m_cv are destroyed only when every Worker has left its
\* loop: once they are destroyed no Worker is left to lock the mutex, wait on
\* the condition variable or touch the queue.
C19_SyncOutlivesWorkers ==
  Alive /\ ~syncAlive => \A w \in 1..m_threads : pc[w] = "done"

\* The records inserted into the queue so far.
SubmittedIds == (1..nextId) \ TodoIds

\* The records held by Workers that are Adapting or Executing.
HeldIds == {cur[w].id : w \in {v \in Workers : InFlight(v)}}

\* The records whose callable has returned.
CompletedIds == {i \in 1..nextId : Completed(i)}

\* C20: in every state of the running pool the records submitted so far are
\* those pending in the queue, those held by Workers that are Adapting or
\* Executing and those whose callable has completed, each record in exactly
\* one of the three, so the three numbers add up to the number submitted;
\* and a record enters the queue only by an insertion of an add and leaves it
\* only by a Worker's pop.
C20_TaskConservation ==
  /\ [](Alive =>
         /\ SubmittedIds = QueueIds \cup HeldIds \cup CompletedIds
         /\ QueueIds \cap HeldIds = {}
         /\ QueueIds \cap CompletedIds = {}
         /\ HeldIds \cap CompletedIds = {}
         /\ \A w \in Workers : InFlight(w) <=> cur[w] # NoTask
         /\ Cardinality(SubmittedIds) =
              Len(m_tasks) + Cardinality({w \in Workers : InFlight(w)})
                + Cardinality(CompletedIds))
  /\ [][owner' # "crashed" =>
          /\ QueueIds' \ QueueIds # {} =>
               \E t \in Threads :
                 /\ callPc[t] = "a_push" /\ todo'[t] = Tail(todo[t])
                 /\ QueueIds' = QueueIds \cup {Head(todo[t]).id}
          /\ QueueIds \ QueueIds' # {} =>
               \E w \in Workers :
                 PopStep(w) /\ QueueIds' = QueueIds \ {cur'[w].id}]_vars

\* One record is pending, one is being executed and one has completed.
C20_Witness ==
  /\ Len(m_tasks) = 1 /\ Cardinality(HeldIds) = 1
  /\ Cardinality(CompletedIds) = 1 /\ nextId = 3
  /\ \E w \in Workers : pc[w] = "exec"

\* The records whose callable was invoked and has not returned.
ExecutingIds == {i \in 1..nextId : invoked[i] >= 1 /\ ~Completed(i)}

\* C21: in every state of the running pool at most maxThreads callables are
\* executing, each by a Worker of its own among the maxThreads created; a
\* Worker pops only when it holds no record, and its pop takes exactly one
\* record, which it keeps until the callable has returned; so with
\* maxThreads = 1 no two executions overlap.
C21_BoundedParallelism ==
  /\ [](Alive =>
         /\ Cardinality(ExecutingIds) <= maxThreads
         /\ Cardinality(LiveWorkers) <= maxThreads
         /\ \A w \in Workers : InFlight(w) => w <= maxThreads
         /\ \A i \in ExecutingIds :
              Cardinality({w \in Workers : pc[w] = "exec" /\ Holds(w, i)}) = 1
         /\ maxThreads = 1 => Cardinality(ExecutingIds) <= 1)
  /\ [][\A w \in Workers :
          /\ PopStep(w) =>
               /\ cur[w] = NoTask /\ cur'[w] # NoTask
               /\ Len(m_tasks') = Len(m_tasks) - 1
          /\ (InFlight(w) /\ owner' # "crashed" /\ cur'[w] # cur[w]) =>
               pc[w] = "exec" /\ pc'[w] = "lock" /\ cur'[w] = NoTask]_vars

\* Both Workers of a pool of two are executing a callable.
C21_Witness ==
  maxThreads = 2 /\ Cardinality(ExecutingIds) = 2

====
